---- MODULE Spec2Model ----
(***************************************************************************)
(* FASTA analyzer (KushalJain07/Python_micro).  Two variants of the same   *)
(* program are modelled side by side:                                      *)
(*   variant "code"   src/code.py   convert / process_file / browse_file   *)
(*   variant "code2"  src/code2.py  convert / App.process / App.browse     *)
(* A text line is a sequence of one-character strings, without its line    *)
(* terminator; a file is a sequence of lines.                              *)
(***************************************************************************)
EXTENDS Integers, Sequences, FiniteSets, TLC

VARIABLES
  variant,      \* which program runs: "code" (src/code.py) or "code2" (src/code2.py)
  pc,           \* "idle": the window waits for Browse; "once": one selected input waits; "done"
  input,        \* the file the last Browse selected, with the environment it met
  csv,          \* project_output.csv: whether it exists, and its text lines
  table,        \* rows shown in the Treeview
  stats_label,  \* statistics shown in the label, NoStats before the first result
  plot,         \* code2 only: App.current_fig, the three bar values, NoPlot before
  ret,          \* what the last call of convert gave its caller
  dialogs,      \* message boxes the last invocation showed, in order
  stderr        \* tracebacks the last invocation printed

vars == <<variant, pc, input, csv, table, stats_label, plot, ret, dialogs, stderr>>

----------------------------------------------------------------------------
(* Bounds of the model *)

\* longest file, in lines, of the parsing specification
MaxLines == 4
\* longest file, in lines, of the session specification
MaxSessionLines == 2
\* most records of the statistics specification
MaxRecords == 5
\* longest sequence of the statistics specification
MaxSeqLen == 2

----------------------------------------------------------------------------
(* Generic helpers on sequences *)

RECURSIVE SumSeq(_)
SumSeq(s) == IF s = <<>> THEN 0 ELSE Head(s) + SumSeq(Tail(s))

RECURSIVE Flatten(_)
Flatten(ss) == IF ss = <<>> THEN <<>> ELSE Head(ss) \o Flatten(Tail(ss))

RECURSIVE Repeat(_, _)
Repeat(c, n) == IF n = 0 THEN <<>> ELSE <<c>> \o Repeat(c, n - 1)

Range(s) == {s[i] : i \in 1..Len(s)}

Count(s, v) == Cardinality({i \in 1..Len(s) : s[i] = v})

\* all sequences over S of length at most n
RECURSIVE SeqsUpTo(_, _)
SeqsUpTo(S, n) ==
  IF n = 0 THEN {<<>>}
  ELSE LET shorter == SeqsUpTo(S, n - 1)
       IN  shorter \cup {Append(s, x) : s \in {t \in shorter : Len(t) = n - 1}, x \in S}

----------------------------------------------------------------------------
(* Python str methods the FASTA reader uses *)

Whitespace == {" ", "\t", "\r"}

\* str.rstrip(): trailing whitespace removed
RECURSIVE RStrip(_)
RStrip(s) ==
  IF s = <<>> THEN <<>>
  ELSE IF s[Len(s)] \in Whitespace THEN RStrip(SubSeq(s, 1, Len(s) - 1))
  ELSE s

\* str.lstrip(): leading whitespace removed
RECURSIVE LStrip(_)
LStrip(s) ==
  IF s = <<>> THEN <<>>
  ELSE IF Head(s) \in Whitespace THEN LStrip(Tail(s))
  ELSE s

\* str.replace(c, ""): every occurrence of c removed
RECURSIVE Remove(_, _)
Remove(s, c) ==
  IF s = <<>> THEN <<>>
  ELSE IF Head(s) = c THEN Remove(Tail(s), c)
  ELSE <<Head(s)>> \o Remove(Tail(s), c)

\* the longest prefix of s without whitespace
RECURSIVE TakeWord(_)
TakeWord(s) ==
  IF s = <<>> \/ Head(s) \in Whitespace THEN <<>>
  ELSE <<Head(s)>> \o TakeWord(Tail(s))

\* title.split(None, 1)[0], and "" where that raises IndexError
FirstWord(title) == TakeWord(LStrip(title))

----------------------------------------------------------------------------
(* Bio.SeqIO.parse(handle, "fasta"): the records of a FASTA text *)

IsHeader(line) == line # <<>> /\ Head(line) = ">"

\* FastaRecord with the whole title as the id (the record's description)
FastaRecordWholeTitle(title, acc) ==
  [id |-> title, seq |-> Remove(Remove(Flatten(acc), " "), "\r")]

\* FastaRecord with the joined lines as they are, spaces kept
FastaRecordKeepSpaces(title, acc) ==
  [id |-> FirstWord(title), seq |-> Flatten(acc)]

\* one record: id is the first word of the title, seq the joined lines with
\* every space and carriage return removed
FastaRecord(title, acc) ==
  [id |-> FirstWord(title), seq |-> Remove(Remove(Flatten(acc), " "), "\r")]

\* The reader's loop: ls are the lines left, seen whether a header was met,
\* title the open record's title, acc its lines (each right-stripped) so far.
\* Text before the first header is skipped.
RECURSIVE FastaLoop(_, _, _, _)
FastaLoop(ls, seen, title, acc) ==
  IF ls = <<>> THEN (IF seen THEN <<FastaRecord(title, acc)>> ELSE <<>>)
  ELSE IF IsHeader(Head(ls))
       THEN (IF seen THEN <<FastaRecord(title, acc)>> ELSE <<>>)
            \o FastaLoop(Tail(ls), TRUE, RStrip(Tail(Head(ls))), <<>>)
  ELSE IF seen THEN FastaLoop(Tail(ls), TRUE, title, Append(acc, RStrip(Head(ls))))
  ELSE FastaLoop(Tail(ls), FALSE, title, acc)

SeqIOParse(lines) == FastaLoop(lines, FALSE, <<>>, <<>>)

----------------------------------------------------------------------------
(* pandas / scipy statistics over the Length column *)

\* insertion of v into an ascending sequence
RECURSIVE InsertSorted(_, _)
InsertSorted(s, v) ==
  IF s = <<>> THEN <<v>>
  ELSE IF v <= Head(s) THEN <<v>> \o s
  ELSE <<Head(s)>> \o InsertSorted(Tail(s), v)

RECURSIVE SortAsc(_)
SortAsc(s) == IF s = <<>> THEN <<>> ELSE InsertSorted(SortAsc(Tail(s)), Head(s))

\* a float that is not an integer in general is kept as the exact fraction
\* num/den it is computed from; NaN is the mean and median of no rows
NaN == [num |-> 0, den |-> 0]

\* Series.mean(): the sum over the count
SeriesMean(lengths) ==
  IF lengths = <<>> THEN NaN ELSE [num |-> SumSeq(lengths), den |-> Len(lengths)]

\* SeriesMedian without the sort: the middle of the rows as they stand
SeriesMedianUnsorted(lengths) ==
  LET n == Len(lengths)
  IN  IF n = 0 THEN NaN
      ELSE IF n % 2 = 1 THEN [num |-> lengths[(n + 1) \div 2], den |-> 1]
      ELSE [num |-> lengths[n \div 2] + lengths[n \div 2 + 1], den |-> 2]

\* Series.median(): the middle of the sorted values, or the mean of the two middles
SeriesMedian(lengths) ==
  LET n == Len(lengths)
      s == SortAsc(lengths)
  IN  IF n = 0 THEN NaN
      ELSE IF n % 2 = 1 THEN [num |-> s[(n + 1) \div 2], den |-> 1]
      ELSE [num |-> s[n \div 2] + s[n \div 2 + 1], den |-> 2]

\* np.unique(a): the distinct values, ascending
Unique(lengths) ==
  LET RECURSIVE Dedup(_)
      Dedup(s) == IF s = <<>> THEN <<>>
                  ELSE IF Len(s) > 1 /\ s[1] = s[2] THEN Dedup(Tail(s))
                  ELSE <<Head(s)>> \o Dedup(Tail(s))
  IN  Dedup(SortAsc(lengths))

\* ScipyMode with the last index holding the largest count instead of the first
ScipyModeLast(lengths) ==
  LET vals == Unique(lengths)
      cnts == [i \in 1..Len(vals) |-> Count(lengths, vals[i])]
      best == CHOOSE i \in 1..Len(vals) :
                /\ \A j \in 1..Len(vals) : cnts[j] <= cnts[i]
                /\ \A j \in (i + 1)..Len(vals) : cnts[j] < cnts[i]
  IN  [mode |-> vals[best], count |-> cnts[best]]

\* scipy.stats.mode(a, keepdims=True): counts of np.unique, and the first index
\* holding the largest count (argmax), so the smallest of the most frequent values
ScipyMode(lengths) ==
  LET vals == Unique(lengths)
      cnts == [i \in 1..Len(vals) |-> Count(lengths, vals[i])]
      best == CHOOSE i \in 1..Len(vals) :
                /\ \A j \in 1..Len(vals) : cnts[j] <= cnts[i]
                /\ \A j \in 1..(i - 1) : cnts[j] < cnts[i]
  IN  [mode |-> vals[best], count |-> cnts[best]]

\* Series.value_counts().sort_values(ascending=False): the distinct values with
\* their counts, counts descending.  sort_values sorts by count with the default
\* sort (quicksort), which is not stable: every order of equal counts is a result
\* some build produces.  The set of those orders of the values vals.
RECURSIVE CountOrders(_, _)
CountOrders(lengths, vals) ==
  IF vals = {} THEN {<<>>}
  ELSE LET top == {v \in vals : \A w \in vals : Count(lengths, w) <= Count(lengths, v)}
       IN  UNION { { <<[value |-> v, count |-> Count(lengths, v)]>> \o rest :
                       rest \in CountOrders(lengths, vals \ {v}) } : v \in top }

\* ValueCounts sorted the other way (ascending=True): counts ascending
ValueCountsAscending(lengths) ==
  {[i \in 1..Len(vc) |-> vc[Len(vc) + 1 - i]] : vc \in CountOrders(lengths, Range(lengths))}

ValueCounts(lengths) == CountOrders(lengths, Range(lengths))

----------------------------------------------------------------------------
(* DataFrame.to_csv(path, index=False): the text of the file *)

\* decimal digits of a natural number
RECURSIVE Digits(_)
Digits(n) ==
  LET d == <<"0", "1", "2", "3", "4", "5", "6", "7", "8", "9">>
  IN  IF n < 10 THEN <<d[n + 1]>> ELSE Digits(n \div 10) \o <<d[(n % 10) + 1]>>

\* csv.QUOTE_MINIMAL: a field holding a separator, a quote or a line break is quoted
CsvField(f) ==
  LET RECURSIVE Doubled(_)
      Doubled(t) == IF t = <<>> THEN <<>>
                    ELSE IF Head(t) = "\"" THEN <<"\"", "\"">> \o Doubled(Tail(t))
                    ELSE <<Head(t)>> \o Doubled(Tail(t))
  IN  IF Range(f) \cap {",", "\"", "\n", "\r"} # {}
      THEN <<"\"">> \o Doubled(f) \o <<"\"">>
      ELSE f

CsvHeader ==
  <<"I", "d", ",", "S", "e", "q", "u", "e", "n", "c", "e", ",", "L", "e", "n", "g", "t", "h">>

CsvLine(row) ==
  CsvField(row.Id) \o <<",">> \o CsvField(row.Sequence) \o <<",">> \o Digits(row.Length)

\* the whole file: the header row, then one line per row of the frame, in order
ToCsv(df) == <<CsvHeader>> \o [i \in 1..Len(df) |-> CsvLine(df[i])]

----------------------------------------------------------------------------
(* Values of the state *)

\* project_output.csv does not exist
NoFile   == [exists |-> FALSE, text |-> <<>>]
\* the label has no text; Python's None in a returned pair
NoStats  == [none |-> TRUE]
\* App.current_fig is None
NoPlot   == [none |-> TRUE]
\* no file was selected yet
NoInput  == [status |-> "none", lines |-> <<>>, failAt |-> 0, export |-> "ok"]
NoReturn == [kind |-> "nothing", df |-> <<>>, stats |-> NoStats, exc |-> ""]

\* convert returned (df, stats)
Returned(df, stats) == [kind |-> "ok", df |-> df, stats |-> stats, exc |-> ""]
\* convert returned (None, None)
ReturnedNone == [kind |-> "none", df |-> <<>>, stats |-> NoStats, exc |-> ""]
\* convert raised exc to its caller
Raised(exc) == [kind |-> "raise", df |-> <<>>, stats |-> NoStats, exc |-> exc]

\* str(e) of the exceptions the environment raises
StrExc(exc) ==
  CASE exc = "FileNotFoundError"  -> "[Errno 2] No such file or directory"
    [] exc = "PermissionError"    -> "[Errno 13] Permission denied"
    [] exc = "UnicodeDecodeError" -> "'utf-8' codec can't decode byte"
    [] exc = "IndexError"         -> "index 0 is out of bounds for axis 0 with size 0"
    [] OTHER                      -> "[Errno 28] No space left on device"

\* one message box: which messagebox function, its title, its text, its source line
Box(fn, title, text, line) == [box |-> fn, title |-> title, text |-> text, line |-> line]

\* The effect of a call of to_csv on the file.  A successful call replaces the
\* file by the frame's text.  A failing call either could not open the file
\* (nothing changes) or opened it for writing and broke off after some lines.
KeepFile == [op |-> "keep", text |-> <<>>]
WriteFile(text) == [op |-> "write", text |-> text]
FailedWrites(text) ==
  {KeepFile} \cup {WriteFile(SubSeq(text, 1, k)) : k \in 0..(Len(text) - 1)}

ApplyWrite(old, w) == IF w.op = "keep" THEN old ELSE [exists |-> TRUE, text |-> w.text]

\* the frame pd.DataFrame({"Id": ids, "Sequence": seqs, "Length": lengths})
DataFrame(records) ==
  [i \in 1..Len(records) |->
     [Id |-> records[i].id, Sequence |-> records[i].seq, Length |-> Len(records[i].seq)]]

LengthColumn(df) == [i \in 1..Len(df) |-> df[i].Length]

----------------------------------------------------------------------------
(* src/code.py *)

\* An outcome of one call of convert is [ret, shown, csvw]: what the caller gets,
\* the boxes convert itself showed, the effect on project_output.csv.

\* lines 14-21: SeqIO.parse opens the file when it is called; a missing file and
\* any other failure to open are caught, each with its own box
OpenFailedCode(in) ==
  IF in.status = "missing"
  THEN {[ret |-> ReturnedNone, csvw |-> KeepFile,
         shown |-> <<Box("showerror", "Error", <<"File is not available.">>, 17)>>]}
  ELSE {[ret |-> ReturnedNone, csvw |-> KeepFile,
         shown |-> <<Box("showerror", "Error",
                         <<"Error reading fasta file: ", StrExc("PermissionError")>>, 20)>>]}

\* lines 36-58: the frame, its statistics, the export (not guarded), the return
SummarizeCode(in, records) ==
  LET df      == DataFrame(records)
      lengths == LengthColumn(df)
      mode_result == ScipyMode(lengths)
      stats_dict  == [mean |-> SeriesMean(lengths), median |-> SeriesMedian(lengths),
                      mode |-> mode_result.mode, mode_count |-> mode_result.count]
  IN  IF in.export = "ok"
      THEN {[ret |-> Returned(df, stats_dict), csvw |-> WriteFile(ToCsv(df)), shown |-> <<>>]}
      ELSE {[ret |-> Raised("OSError"), csvw |-> w, shown |-> <<>>] :
              w \in FailedWrites(ToCsv(df))}

\* NoRecordsCode with the test for no records placed after the export
NoRecordsCodeAfterExport ==
  {[ret |-> ReturnedNone, csvw |-> WriteFile(ToCsv(<<>>)),
    shown |-> <<Box("showwarning", "Warning", <<"No sequences found in FASTA file.">>, 33)>>]}

\* lines 32-34: no records, a warning box and (None, None)
NoRecordsCode ==
  {[ret |-> ReturnedNone, csvw |-> KeepFile,
    shown |-> <<Box("showwarning", "Warning", <<"No sequences found in FASTA file.">>, 33)>>]}

\* ReadFailedCode with the failure swallowed: the records read before it are
\* summarized and returned
ReadFailedCodeSwallowed(in) ==
  LET records == SeqIOParse(SubSeq(in.lines, 1, in.failAt - 1))
  IN  IF records = <<>> THEN NoRecordsCode ELSE SummarizeCode(in, records)

\* lines 27-30: the loop reads the records, outside the try; a failure to read
\* leaves convert as an exception, with the lists built so far.  Releases of the
\* reader that look for the first header when SeqIO.parse is called meet a
\* failure at or before that header inside the try of lines 14-21 instead.
ReadFailedCode(in) ==
  {[ret |-> Raised("UnicodeDecodeError"), csvw |-> KeepFile, shown |-> <<>>]}
  \cup
  (IF \E i \in 1..(in.failAt - 1) : IsHeader(in.lines[i]) THEN {}
   ELSE {[ret |-> ReturnedNone, csvw |-> KeepFile,
          shown |-> <<Box("showerror", "Error",
                          <<"Error reading fasta file: ", StrExc("UnicodeDecodeError")>>, 20)>>]})

\* convert(fasta_file): the set of outcomes of one call on the input in
ConvertCode(in) ==
  IF in.status \in {"missing", "denied"} THEN OpenFailedCode(in)
  ELSE IF in.failAt > 0 THEN ReadFailedCode(in)
  ELSE LET records == SeqIOParse(in.lines)
       IN  IF records = <<>> THEN NoRecordsCode ELSE SummarizeCode(in, records)

\* show_table(df): a new Treeview with the frame's columns and rows
ShowTable(df) ==
  [columns |-> <<"Id", "Sequence", "Length">>,
   rows    |-> [i \in 1..Len(df) |-> <<df[i].Id, df[i].Sequence, df[i].Length>>]]

\* show_stats(stats): the four values the label's text is formatted from
ShowStats(stats) ==
  [mean |-> stats.mean, median |-> stats.median,
   mode |-> stats.mode, mode_count |-> stats.mode_count]

\* browse_file() with the file in chosen: file_path_var.set(filename), then
\* process_file(): convert, and show_table, show_stats and the success box when
\* convert returned a frame
BrowseCode(in) ==
  /\ variant = "code"
  /\ \E o \in ConvertCode(in) :
       /\ input' = in
       /\ ret' = o.ret
       /\ csv' = ApplyWrite(csv, o.csvw)
       /\ IF o.ret.kind = "ok"
          THEN /\ table' = ShowTable(o.ret.df)
               /\ stats_label' = ShowStats(o.ret.stats)
               /\ dialogs' = o.shown \o
                    <<Box("showinfo", "Success",
                          <<"Conversion complete.\nCSV saved as project_output.csv">>, 86)>>
               /\ stderr' = <<>>
          ELSE /\ UNCHANGED <<table, stats_label>>
               /\ dialogs' = o.shown
               \* an exception leaving the callback is printed by Tk, the window lives on
               /\ stderr' = IF o.ret.kind = "raise" THEN <<o.ret.exc>> ELSE <<>>
  /\ UNCHANGED <<variant, plot>>

----------------------------------------------------------------------------
(* src/code2.py *)

\* line 23: p.open raises for a missing file and for one that cannot be opened;
\* nothing is caught in convert
OpenFailedCode2(in) ==
  {[ret |-> Raised(IF in.status = "missing" THEN "FileNotFoundError" ELSE "PermissionError"),
    csvw |-> KeepFile, shown |-> <<>>]}

\* line 24: list(SeqIO.parse(fh, "fasta")) raises for a file that cannot be read
ReadFailedCode2(in) ==
  {[ret |-> Raised("UnicodeDecodeError"), csvw |-> KeepFile, shown |-> <<>>]}

\* lines 28-54: the frame and its statistics, the guarded export, the return.
\* Without records the frame is empty, mean and median are NaN, and vc.index[0]
\* raises IndexError (line 38) before the export.
SummarizeCode2(in, records) ==
  LET df      == DataFrame(records)
      lengths == LengthColumn(df)
      mean_len   == SeriesMean(lengths)
      median_len == SeriesMedian(lengths)
      writes  == IF in.export = "ok" THEN {WriteFile(ToCsv(df))}
                 ELSE FailedWrites(ToCsv(df))
  IN  IF ValueCounts(lengths) = {<<>>}
      THEN {[ret |-> Raised("IndexError"), csvw |-> KeepFile, shown |-> <<>>]}
      ELSE {[ret |-> Returned(df, [mean |-> mean_len, median |-> median_len,
                                    mode |-> vc[1].value, mode_count |-> vc[1].count,
                                    vc |-> vc]),
             csvw |-> w, shown |-> <<>>] :
              vc \in ValueCounts(lengths), w \in writes}

\* convert(fasta_file): the set of outcomes of one call on the input in
ConvertCode2(in) ==
  IF in.status \in {"missing", "denied"} THEN OpenFailedCode2(in)
  ELSE IF in.failAt > 0 THEN ReadFailedCode2(in)
  ELSE SummarizeCode2(in, SeqIOParse(in.lines))

\* LoadTable without the deletion of the rows shown before
LoadTableAppend(df) ==
  [columns |-> <<"Id", "Sequence", "Length">>,
   rows    |-> table.rows \o [i \in 1..Len(df) |-> <<df[i].Id, df[i].Sequence, df[i].Length>>]]

\* App.load_table(df): the Treeview's rows deleted, then the frame's inserted
LoadTable(df) ==
  [columns |-> <<"Id", "Sequence", "Length">>,
   rows    |-> [i \in 1..Len(df) |-> <<df[i].Id, df[i].Sequence, df[i].Length>>]]

\* App.show_stats(stats): the four values the label's text is formatted from
ShowStats2(stats) ==
  [mean |-> stats.mean, median |-> stats.median,
   mode |-> stats.mode, mode_count |-> stats.mode_count]

\* make_bar_plot(stats): the bars Mean, Median, Mode, in that order
MakeBarPlot(stats) ==
  [labels |-> <<"Mean", "Median", "Mode">>,
   values |-> <<stats.mean, stats.median, stats.mode>>]

\* App.browse() with the file in chosen: file_var.set(path), then App.process(path):
\* an exception of convert is printed, shown in one error box and ends the call;
\* otherwise load_table, show_stats, draw_plot
BrowseCode2(in) ==
  /\ variant = "code2"
  /\ \E o \in ConvertCode2(in) :
       /\ input' = in
       /\ ret' = o.ret
       /\ csv' = ApplyWrite(csv, o.csvw)
       /\ IF o.ret.kind = "raise"
          THEN /\ stderr' = <<o.ret.exc>>
               /\ dialogs' = o.shown \o
                    <<Box("showerror", "Error", <<StrExc(o.ret.exc)>>, 177)>>
               /\ UNCHANGED <<table, stats_label, plot>>
          ELSE /\ table' = LoadTable(o.ret.df)
               /\ stats_label' = ShowStats2(o.ret.stats)
               /\ plot' = MakeBarPlot(o.ret.stats)
               /\ dialogs' = o.shown
               /\ stderr' = <<>>
  /\ UNCHANGED variant

----------------------------------------------------------------------------
(* Inputs: a file as Browse finds it, and the environment of the call *)

\* status: "missing" (no such file), "denied" (it cannot be opened), "ok"
\* lines:  the text of the file
\* failAt: 0, or the line at which reading raises (undecodable bytes)
\* export: whether project_output.csv can be written, "ok" or "fail"
Unopenable == {[status |-> st, lines |-> <<>>, failAt |-> 0, export |-> ex] :
                 st \in {"missing", "denied"}, ex \in {"ok", "fail"}}

Readable(files) == {[status |-> "ok", lines |-> f, failAt |-> 0, export |-> ex] :
                      f \in files, ex \in {"ok", "fail"}}

Undecodable(files) ==
  UNION { {[status |-> "ok", lines |-> f, failAt |-> k, export |-> "ok"] : k \in 1..Len(f)} :
            f \in files }

\* the session: short files of a header line and a sequence line
SessionLines == { <<">", "a">>, <<"A", "C">> }
SessionFiles == SeqsUpTo(SessionLines, MaxSessionLines)
SessionInputs == Unopenable \cup Readable(SessionFiles) \cup Undecodable(SessionFiles)

\* parsing: headers with and without a description or an identifier, sequence
\* lines with spaces before, inside and after, a blank line
ParseLines ==
  { <<">", "a">>, <<">", "b", " ", "x">>, <<">">>,
    <<"A", "C">>, <<"A", " ", "C">>, <<" ", "C", " ">>, <<>> }
ParseFiles == SeqsUpTo(ParseLines, MaxLines)
ParseInputs == Readable(ParseFiles)

\* statistics: one record per length, its sequence on one line
RECURSIVE FileOfLengths(_)
FileOfLengths(ls) ==
  IF ls = <<>> THEN <<>>
  ELSE << <<">", "s">> >> \o (IF Head(ls) = 0 THEN <<>> ELSE <<Repeat("A", Head(ls))>>)
       \o FileOfLengths(Tail(ls))
StatsLengths == SeqsUpTo(0..MaxSeqLen, MaxRecords) \cup { <<3, 3, 5, 5, 7>>, <<4, 3, 6>> }
StatsInputs == Readable({FileOfLengths(ls) : ls \in StatsLengths})

----------------------------------------------------------------------------
(* Specifications *)

InitWindow ==
  /\ variant \in {"code", "code2"}
  /\ input = NoInput
  /\ csv = NoFile
  /\ table = [columns |-> <<>>, rows |-> <<>>]
  /\ stats_label = NoStats
  /\ plot = NoPlot
  /\ ret = NoReturn
  /\ dialogs = <<>>
  /\ stderr = <<>>

\* a session: any number of Browse clicks, one after the other
Init == InitWindow /\ pc = "idle"
Next ==
  \/ pc = "idle" /\ UNCHANGED pc /\ \E in \in SessionInputs : BrowseCode(in)
  \/ pc = "idle" /\ UNCHANGED pc /\ \E in \in SessionInputs : BrowseCode2(in)
Spec == Init /\ [][Next]_vars

\* one Browse click on a file of ParseFiles
InitOnce == InitWindow /\ pc = "once"
NextParse ==
  \/ pc = "once" /\ pc' = "done" /\ \E in \in ParseInputs : BrowseCode(in)
  \/ pc = "once" /\ pc' = "done" /\ \E in \in ParseInputs : BrowseCode2(in)
SpecParse == InitOnce /\ [][NextParse]_vars

\* one Browse click on a file whose records have given lengths
NextStats ==
  \/ pc = "once" /\ pc' = "done" /\ \E in \in StatsInputs : BrowseCode(in)
  \/ pc = "once" /\ pc' = "done" /\ \E in \in StatsInputs : BrowseCode2(in)
SpecStats == InitOnce /\ [][NextStats]_vars

----------------------------------------------------------------------------
(* Vocabulary of the properties, defined on the input text and on the state, *)
(* not through the operators that model the code                             *)

Called == input # NoInput

\* the positions of the lines that begin with ">", ascending
HeaderPositions(lines) ==
  SortAsc(LET P == {i \in 1..Len(lines) : lines[i] # <<>> /\ lines[i][1] = ">"}
              RECURSIVE AsSeq(_)
              AsSeq(S) == IF S = {} THEN <<>>
                          ELSE LET x == CHOOSE y \in S : TRUE IN <<x>> \o AsSeq(S \ {x})
          IN  AsSeq(P))

\* the first whitespace-delimited token after ">", empty when there is none
HeaderToken(line) ==
  LET t == Tail(line)
      black == {i \in 1..Len(t) : t[i] \notin Whitespace}
  IN  IF black = {} THEN <<>>
      ELSE LET a == CHOOSE i \in black : \A j \in black : i <= j
               b == CHOOSE i \in black :
                      /\ \A j \in a..i : j \in black
                      /\ (i + 1) \in 1..Len(t) => (i + 1) \notin black
           IN  SubSeq(t, a, b)

\* the lines of the k-th record: after its header, before the next header or the end
BodyLines(lines, k) ==
  LET hp   == HeaderPositions(lines)
      from == hp[k] + 1
      to   == IF k < Len(hp) THEN hp[k + 1] - 1 ELSE Len(lines)
  IN  SubSeq(lines, from, to)

\* a line without its leading and trailing whitespace
Stripped(line) ==
  LET black == {i \in 1..Len(line) : line[i] \notin Whitespace}
  IN  IF black = {} THEN <<>>
      ELSE SubSeq(line, CHOOSE i \in black : \A j \in black : i <= j,
                        CHOOSE i \in black : \A j \in black : j <= i)

\* a line without its trailing whitespace, and then without any space or
\* carriage return
Squeezed(line) ==
  LET black == {i \in 1..Len(line) : line[i] \notin Whitespace}
      last  == IF black = {} THEN 0 ELSE CHOOSE i \in black : \A j \in black : j <= i
  IN  SelectSeq(SubSeq(line, 1, last), LAMBDA c : c \notin {" ", "\r"})

\* the condition an input is in, as the error taxonomy names them
Cond(in) ==
  IF in.status = "none" THEN "NoCall"
  ELSE IF in.status = "missing" THEN "NotFound"
  ELSE IF in.status = "denied" \/ in.failAt > 0 THEN "Unreadable"
  ELSE IF HeaderPositions(in.lines) = <<>> THEN "Empty"
  ELSE "Valid"

FailureConds == {"NotFound", "Unreadable", "Empty"}

\* to_csv was reached and failed
ExportFailed(in) == Cond(in) = "Valid" /\ in.export = "fail"

\* the result of the last call, when it returned a frame
Lengths == LengthColumn(ret.df)

\* the values of ls with the largest number of occurrences
MostFrequent(ls) == {v \in Range(ls) : \A w \in Range(ls) : Count(ls, w) <= Count(ls, v)}

SetMax(S) == CHOOSE x \in S : \A y \in S : y <= x
SetMin(S) == CHOOSE x \in S : \A y \in S : x <= y

\* the k-th smallest element of ls, by counting
KthSmallest(ls, k) ==
  CHOOSE x \in Range(ls) :
    /\ Cardinality({i \in 1..Len(ls) : ls[i] < x}) < k
    /\ k <= Cardinality({i \in 1..Len(ls) : ls[i] <= x})

\* the rows a shown table holds for a frame
RowsOf(df) == [i \in 1..Len(df) |-> <<df[i].Id, df[i].Sequence, df[i].Length>>]

\* the window shows the same table, statistics and plot after the step as before
DisplayUnchanged == table' = table /\ stats_label' = stats_label /\ plot' = plot

\* error and warning boxes among ds
FailureBoxes(ds) == SelectSeq(ds, LAMBDA d : d.box \in {"showerror", "showwarning"})
SuccessBoxes(ds) == SelectSeq(ds, LAMBDA d : d.box = "showinfo")

----------------------------------------------------------------------------
(* Statistics: C1, C8, C9, under SpecStats *)

\* C1, as stated: whenever convert returns a table, mode is the largest of the
\* length values that share the highest occurrence count, and mode_count is that
\* count ([3,3,5,5,7] gives 5 and 2, [4,3,6] gives 6 and 1).
C1_LargestWinsTies ==
  ret.kind = "ok" =>
    /\ ret.stats.mode = SetMax(MostFrequent(Lengths))
    /\ ret.stats.mode_count = Count(Lengths, SetMax(MostFrequent(Lengths)))

\* C1, amended: whenever convert returns a table, mode is one of the length
\* values that share the highest occurrence count and mode_count is that count;
\* src/code.py returns the smallest of them, src/code2.py whichever of them
\* sort_values leaves first.
C1_TieBreak ==
  ret.kind = "ok" =>
    /\ ret.stats.mode \in MostFrequent(Lengths)
    /\ ret.stats.mode_count = Count(Lengths, ret.stats.mode)
    /\ variant = "code" => ret.stats.mode = SetMin(MostFrequent(Lengths))

\* the lengths [3,3,5,5,7] were summarized by src/code.py: 3 and 5 tie
C1_Witness ==
  /\ variant = "code"
  /\ ret.kind = "ok"
  /\ Lengths = <<3, 3, 5, 5, 7>>
  /\ MostFrequent(Lengths) = {3, 5}
  /\ ret.stats.mode = 3
  /\ ret.stats.mode_count = 2

\* C8: whenever convert returns a table of n rows, median is the middle element
\* of the lengths in ascending order when n is odd and the average of the two
\* middle elements when n is even, whatever the order of the rows.
C8_Median ==
  ret.kind = "ok" =>
    LET n == Len(Lengths)
        m == ret.stats.median
    IN  /\ m.den > 0
        /\ n % 2 = 1 => m.num = m.den * KthSmallest(Lengths, (n + 1) \div 2)
        /\ n % 2 = 0 => 2 * m.num = m.den * (KthSmallest(Lengths, n \div 2)
                                             + KthSmallest(Lengths, n \div 2 + 1))

\* an even number of rows, not in ascending order, whose median is a half-integer
C8_Witness ==
  /\ ret.kind = "ok"
  /\ Len(Lengths) = 4
  /\ Lengths # SortAsc(Lengths)
  /\ ret.stats.median.den = 2
  /\ ret.stats.median.num % 2 = 1

\* C9: whenever convert returns a table, mode occurs in the Length column,
\* mode_count is the number of rows whose Length is mode, it is at least 1, and no
\* length value occurs in more rows.
C9_Mode ==
  ret.kind = "ok" =>
    /\ \E i \in 1..Len(ret.df) : ret.df[i].Length = ret.stats.mode
    /\ ret.stats.mode_count =
         Cardinality({i \in 1..Len(ret.df) : ret.df[i].Length = ret.stats.mode})
    /\ ret.stats.mode_count >= 1
    /\ \A v \in Range(Lengths) : Count(Lengths, v) <= ret.stats.mode_count

\* src/code2.py summarized a column with a value rarer than the mode
C9_Witness ==
  /\ variant = "code2"
  /\ ret.kind = "ok"
  /\ ret.stats.mode_count >= 2
  /\ \E v \in Range(Lengths) : Count(Lengths, v) < ret.stats.mode_count

----------------------------------------------------------------------------
(* Parsing and table shape: C6, C7, under SpecParse *)

\* C6: a table convert returns has one row per line of the input that begins
\* with ">", the i-th row carrying the first whitespace-delimited token of the
\* i-th such line; an input with at least one such line, read and exported
\* without failure, gives a table, and project_output.csv then holds the header
\* row and these rows, in this order.
C6_RowsAreHeaders ==
  Called =>
    LET hp == HeaderPositions(input.lines)
    IN  /\ ret.kind = "ok" =>
             /\ Len(ret.df) = Len(hp)
             /\ \A i \in 1..Len(hp) : ret.df[i].Id = HeaderToken(input.lines[hp[i]])
        /\ (hp # <<>> /\ input.export = "ok") =>
             /\ ret.kind = "ok"
             /\ csv.exists
             /\ Len(csv.text) = 1 + Len(ret.df)
             /\ csv.text[1] = CsvHeader
             /\ \A i \in 1..Len(ret.df) : csv.text[i + 1] = CsvLine(ret.df[i])

\* a file with text before its first header, two headers, one of them with a
\* description, was converted and written
C6_Witness ==
  /\ Called
  /\ ret.kind = "ok"
  /\ input.export = "ok"
  /\ Len(input.lines) = 4
  /\ HeaderPositions(input.lines) = <<2, 4>>
  /\ input.lines[4] = <<">", "b", " ", "x">>
  /\ ret.df[2].Id = <<"b">>
  /\ Len(csv.text) = 3

\* C7, as stated: in a table convert returns every row has Length = number of
\* characters of Sequence, and Sequence is the concatenation, in order, of the
\* record's non-header lines, each stripped of its leading and trailing
\* whitespace, so that Length is the sum of the stripped lines' lengths.
C7_StrippedLines ==
  (Called /\ ret.kind = "ok") =>
    \A k \in 1..Len(ret.df) :
      LET body == BodyLines(input.lines, k)
          parts == [i \in 1..Len(body) |-> Stripped(body[i])]
      IN  /\ ret.df[k].Length = Len(ret.df[k].Sequence)
          /\ ret.df[k].Sequence = Flatten(parts)
          /\ ret.df[k].Length = SumSeq([i \in 1..Len(parts) |-> Len(parts[i])])

\* C7, amended: in a table convert returns every row has Length = number of
\* characters of Sequence, and Sequence is the concatenation, in order, of the
\* record's non-header lines, each without its trailing whitespace and without
\* any space, the spaces inside a line included, so that Length is the sum of the
\* lengths of the lines so reduced.
C7_SqueezedLines ==
  (Called /\ ret.kind = "ok") =>
    \A k \in 1..Len(ret.df) :
      LET body == BodyLines(input.lines, k)
          parts == [i \in 1..Len(body) |-> Squeezed(body[i])]
      IN  /\ ret.df[k].Length = Len(ret.df[k].Sequence)
          /\ ret.df[k].Sequence = Flatten(parts)
          /\ ret.df[k].Length = SumSeq([i \in 1..Len(parts) |-> Len(parts[i])])

\* a record of three lines, one with a space inside, one with spaces around
C7_Witness ==
  /\ Called
  /\ ret.kind = "ok"
  /\ input.lines = << <<">", "a">>, <<"A", " ", "C">>, <<" ", "C", " ">>, <<"A", "C">> >>
  /\ ret.df[1].Sequence = <<"A", "C", "C", "A", "C">>
  /\ ret.df[1].Length = 5

----------------------------------------------------------------------------
(* Failures and frame effects: C2, C3, C4, C5, C10, under Spec *)

\* what the claims call a result: a frame with statistics, or neither
NothingReturned(r) == r.kind \in {"none", "raise"} /\ r.df = <<>> /\ r.stats = NoStats

\* the text project_output.csv holds when it holds the rows the table shows
CsvOfRows(rows) ==
  <<CsvHeader>> \o
  [i \in 1..Len(rows) |->
     CsvLine([Id |-> rows[i][1], Sequence |-> rows[i][2], Length |-> rows[i][3]])]

\* when the window shows a result, the file holds the table the window shows
FileHoldsShown ==
  stats_label # NoStats => csv.exists /\ csv.text = CsvOfRows(table.rows)

\* the window shows the frame and the statistics of the result r
Shows(r, t, l) ==
  /\ t.rows = RowsOf(r.df)
  /\ l # NoStats
  /\ l.mean = r.stats.mean /\ l.median = r.stats.median
  /\ l.mode = r.stats.mode /\ l.mode_count = r.stats.mode_count

\* C2: an invocation on a readable input with no line beginning with ">" gets
\* a failure from convert (an exception, or (None, None) after a warning or error
\* box), no table and no statistics; project_output.csv is as it was, and table,
\* statistics and plot shown are as they were.
C2_EmptyInput ==
  [][ Cond(input') = "Empty" =>
        /\ NothingReturned(ret')
        /\ ret'.kind = "raise" \/ FailureBoxes(dialogs') # <<>>
        /\ SuccessBoxes(dialogs') = <<>>
        /\ csv' = csv
        /\ DisplayUnchanged ]_vars

\* a file with text but no header was browsed after a successful invocation
C2_Witness ==
  /\ Cond(input) = "Empty"
  /\ input.lines # <<>>
  /\ NothingReturned(ret)
  /\ csv.exists
  /\ table.rows # <<>>

\* C3, as stated: when the input parses to at least one record and writing
\* project_output.csv fails, convert still returns the table and the statistics,
\* and the caller shows them, in either variant.
C3_ExportFailureNotFatal ==
  ExportFailed(input) =>
    /\ ret.kind = "ok"
    /\ Len(ret.df) = Len(HeaderPositions(input.lines))
    /\ Shows(ret, table, stats_label)

\* C4: an invocation returns a table together with statistics or neither; when
\* the input cannot be opened, or reading it fails at some line, convert returns
\* no table, project_output.csv is as it was, nothing new is shown, and the
\* failure is reported once: by one error box, or, where no box is shown, by the
\* one exception that leaves the callback.
C4_AllOrNothing ==
  [][ /\ ret'.kind = "ok" => ret'.df # <<>> /\ ret'.stats # NoStats
      /\ ret'.kind # "ok" => ret'.df = <<>> /\ ret'.stats = NoStats
      /\ Cond(input') \in {"NotFound", "Unreadable"} =>
           /\ NothingReturned(ret')
           /\ csv' = csv
           /\ DisplayUnchanged
           /\ SuccessBoxes(dialogs') = <<>>
           /\ IF FailureBoxes(dialogs') # <<>>
              THEN Len(FailureBoxes(dialogs')) = 1
              ELSE Len(stderr') = 1 ]_vars

\* reading failed at the second line, after the first record's header, in an
\* invocation that followed a successful one
C4_Witness ==
  /\ input.status = "ok"
  /\ input.failAt = 2
  /\ HeaderPositions(input.lines) # <<>>
  /\ HeaderPositions(input.lines)[1] = 1
  /\ ret.kind = "raise"
  /\ csv.exists
  /\ table.rows # <<>>

\* C5, as stated: the failures "not found", "unreadable" and "no records" each
\* show a message of their own: of two invocations that fail in two of these
\* ways, each shows an error or warning box, and the two boxes differ in their
\* text and in the place of the program that shows them.
C5_DistinctMessages ==
  [][ ( /\ Cond(input) \in FailureConds
        /\ Cond(input') \in FailureConds
        /\ Cond(input) # Cond(input') ) =>
        /\ FailureBoxes(dialogs) # <<>>
        /\ FailureBoxes(dialogs') # <<>>
        /\ FailureBoxes(dialogs)[1].text # FailureBoxes(dialogs')[1].text
        /\ FailureBoxes(dialogs)[1].line # FailureBoxes(dialogs')[1].line ]_vars

\* C10, as stated: an invocation that fails (not found, unreadable, empty)
\* leaves project_output.csv and the window as they were, and every successful
\* invocation replaces the file's contents and the rows and statistics shown by
\* its own, so that after every invocation the file holds the table the window
\* shows, that of the most recent successful invocation.
C10_LastSuccessEverywhere ==
  [][ /\ Cond(input') \in FailureConds =>
           ret'.kind # "ok" /\ csv' = csv /\ DisplayUnchanged
      /\ ret'.kind = "ok" =>
           /\ csv'.exists /\ csv'.text = ToCsv(ret'.df)
           /\ Shows(ret', table', stats_label')
      /\ FileHoldsShown' ]_vars

\* C10, amended: an invocation that fails (not found, unreadable, empty) leaves
\* project_output.csv and the table, statistics and plot shown as they were;
\* every successful invocation replaces (never appends to) the rows and
\* statistics shown by its own, and the file's contents when its export
\* succeeds; so an invocation whose export does not fail leaves the file
\* holding the table the window shows if it did before.
C10_LastSuccessUnlessExportFails ==
  [][ /\ Cond(input') \in FailureConds =>
           ret'.kind # "ok" /\ csv' = csv /\ DisplayUnchanged
      /\ ret'.kind = "ok" =>
           /\ Shows(ret', table', stats_label')
           /\ variant = "code2" => plot' # NoPlot /\ plot'.values[3] = ret'.stats.mode
           /\ input'.export = "ok" => csv'.exists /\ csv'.text = ToCsv(ret'.df)
      /\ (FileHoldsShown /\ ~ExportFailed(input')) => FileHoldsShown' ]_vars

\* a missing file was browsed after a successful invocation: file and window
\* still hold that invocation's table
C10_Witness ==
  /\ Cond(input) = "NotFound"
  /\ csv.exists
  /\ table.rows # <<>>
  /\ stats_label # NoStats
  /\ FileHoldsShown

====
